---- MODULE Spec2Model ----
(***************************************************************************)
(* Model of the trial-and-error crate: the error report formatter          *)
(* (src/src/error_reporter.rs) and the DynError / DynResult replacement    *)
(* for Box<dyn Error> (src/src/boxerror_replacement.rs).                   *)
(*                                                                         *)
(* A text is a sequence of one-character strings.  An error is a record    *)
(* with the writes its Display impl issues, its source and its backtrace.  *)
(***************************************************************************)
EXTENDS Integers, Sequences, FiniteSets, TLC

VARIABLES
    report,   \* the Report under construction, or NoReport
    out,      \* the String produced by rendering the report, or NoOutput
    res,      \* the result value travelling through the `?` conversions
    orig,     \* the error the travelling failure was made of
    hops,     \* the `?` conversions the failure went through, in order
    pc,       \* position in Termination::report
    status,   \* the i32 returned by Termination::report
    stderr    \* the text written to the standard error stream

vars == <<report, out, res, orig, hops, pc, status, stderr>>
reportVars == <<report, out>>
dynVars == <<res, orig, hops, pc, status, stderr>>

(***************************************************************************)
(* Bounds of the inputs.                                                    *)
(***************************************************************************)
MaxCauses == 3
MaxTextLen == 4
MaxChunks == 2

(***************************************************************************)
(* Text helpers.                                                            *)
(***************************************************************************)
NL == "\n"

RECURSIVE Concat(_)
\* the text obtained by appending the chunks of a sequence of writes
Concat(ws) == IF ws = <<>> THEN <<>> ELSE Head(ws) \o Concat(Tail(ws))

RECURSIVE Split(_)
\* str::split('\n'): the lines of s, always at least one (possibly empty) line
Split(s) ==
    IF \A i \in 1..Len(s) : s[i] # NL
    THEN <<s>>
    ELSE LET i == CHOOSE j \in 1..Len(s) :
                      s[j] = NL /\ \A k \in 1..(j - 1) : s[k] # NL
         IN <<SubSeq(s, 1, i - 1)>> \o Split(SubSeq(s, i + 1, Len(s)))

IsWhitespace(c) == c \in {" ", NL, "\t", "\r"}

RECURSIVE TrimEnd(_)
\* str::trim_end: s without its trailing whitespace
TrimEnd(s) ==
    IF s # <<>> /\ IsWhitespace(s[Len(s)])
    THEN TrimEnd(SubSeq(s, 1, Len(s) - 1))
    ELSE s

DigitChars == <<"0", "1", "2", "3", "4", "5", "6", "7", "8", "9">>

RECURSIVE Decimal(_)
\* the decimal digits of a usize
Decimal(n) ==
    IF n < 10 THEN <<DigitChars[n + 1]>>
    ELSE Decimal(n \div 10) \o <<DigitChars[(n % 10) + 1]>>

RECURSIVE Spaces(_)
Spaces(n) == IF n <= 0 THEN <<>> ELSE <<" ">> \o Spaces(n - 1)

\* format!("{: >w}", n): n right-aligned by spaces in a field of width w
RightAlign(n, w) == Spaces(w - Len(Decimal(n))) \o Decimal(n)

(***************************************************************************)
(* Errors: the std::error::Error capability.                                *)
(***************************************************************************)
NoError == [tag |-> "None"]
NoBacktrace == [tag |-> "None"]
Backtrace(t) == [tag |-> "Backtrace", text |-> t]

\* a concrete error type: Display issues `writes`, one write_str per chunk
ConcreteError(writes, source, trace) ==
    [tag |-> "Error", writes |-> writes, source |-> source, trace |-> trace]

\* BoxError::from(error): Box<dyn Error + Send + Sync + 'static>
BoxError_from(error) == [tag |-> "Box", inner |-> error]

RECURSIVE Display_writes(_)
\* Display for DynError: self.error.fmt(f)
DynError_fmt(self) == Display_writes(self.error)

\* the write_str calls that `Display::fmt` of e makes on its formatter
Display_writes(e) ==
    CASE e.tag = "Error" -> e.writes
      [] e.tag = "Box" -> Display_writes(e.inner)
      [] e.tag = "DynError" -> DynError_fmt(e)

RECURSIVE Error_source(_)
\* a DynError that keeps the trait's default source()
DynError_source_default(self) == NoError

\* Error for DynError: source() is self.error.source()
DynError_source(self) == Error_source(self.error)

\* Error::source
Error_source(e) ==
    CASE e.tag = "Error" -> e.source
      [] e.tag = "Box" -> Error_source(e.inner)
      [] e.tag = "DynError" -> DynError_source(e)

\* Error for DynError: backtrace() is not overridden, the trait's default is None
DynError_backtrace(self) == NoBacktrace

RECURSIVE Error_backtrace(_)
\* Error::backtrace
Error_backtrace(e) ==
    CASE e.tag = "Error" -> e.trace
      [] e.tag = "Box" -> Error_backtrace(e.inner)
      [] e.tag = "DynError" -> DynError_backtrace(e)

RECURSIVE Error_chain(_)
\* <dyn Error>::chain: e, its source, the source's source, ...
Error_chain(e) ==
    IF e = NoError THEN <<>> ELSE <<e>> \o Error_chain(Error_source(e))

\* to_string(): the complete display text of e
DisplayText(e) == Concat(Display_writes(e))

(***************************************************************************)
(* DynError (boxerror_replacement.rs).                                      *)
(***************************************************************************)
\* Box<dyn Error>::downcast::<DynError>() succeeds iff the erased value is a DynError
downcast_is_DynError(box) == box.inner.tag = "DynError"

\* DynError::new without the downcast: always a new layer
DynError_new_always_wrap(error) == [tag |-> "DynError", error |-> BoxError_from(error)]

\* DynError::new: erase, then reuse the erased value if it already is a DynError
DynError_new(error) ==
    LET boxed == BoxError_from(error)
    IN IF downcast_is_DynError(boxed)
       THEN boxed.inner
       ELSE [tag |-> "DynError", error |-> boxed]

(***************************************************************************)
(* The indenting writer (error_reporter.rs, Indented).                      *)
(***************************************************************************)
FormatNone == [tag |-> "None"]
FormatSome(size) == [tag |-> "Some", size |-> size]

Indented(buffer, needs_indent, format) ==
    [buffer |-> buffer, needs_indent |-> needs_indent, format |-> format]

\* the indentation written before a non-empty line; ind is the index of the
\* line within the current write_str call
IndentToken(format, ind) ==
    IF format.tag = "Some"
    THEN IF ind = 0
         THEN RightAlign(format.size, 4) \o <<":", " ">>
         ELSE Spaces(6)
    ELSE Spaces(4)

\* the loop body without the `line.is_empty()` check
Indented_write_line_no_blank_check(self, ind, line) ==
    LET s1 == IF ind > 0
              THEN [self EXCEPT !.buffer = @ \o <<NL>>, !.needs_indent = TRUE]
              ELSE self
    IN IF s1.needs_indent
       THEN [s1 EXCEPT !.buffer = @ \o IndentToken(s1.format, ind) \o line,
                       !.needs_indent = FALSE]
       ELSE [s1 EXCEPT !.buffer = @ \o line]

\* one iteration of the loop of Indented::write_str
Indented_write_line(self, ind, line) ==
    LET s1 == IF ind > 0
              THEN [self EXCEPT !.buffer = @ \o <<NL>>, !.needs_indent = TRUE]
              ELSE self
    IN IF s1.needs_indent
       THEN IF line = <<>>
            THEN s1
            ELSE [s1 EXCEPT !.buffer = @ \o IndentToken(s1.format, ind) \o line,
                            !.needs_indent = FALSE]
       ELSE [s1 EXCEPT !.buffer = @ \o line]

RECURSIVE Indented_write_lines(_, _, _)
Indented_write_lines(self, lines, ind) ==
    IF ind >= Len(lines) THEN self
    ELSE Indented_write_lines(Indented_write_line(self, ind, lines[ind + 1]),
                              lines, ind + 1)

\* Indented::write_str
Indented_write_str(self, s) == Indented_write_lines(self, Split(s), 0)

RECURSIVE Indented_write_all(_, _)
\* write!(indented, "{}", error): every write of the error's Display goes
\* through Indented::write_str, in order
Indented_write_all(self, writes) ==
    IF writes = <<>> THEN self
    ELSE Indented_write_all(Indented_write_str(self, Head(writes)), Tail(writes))

(***************************************************************************)
(* Report (error_reporter.rs).                                              *)
(***************************************************************************)
NoReport == [tag |-> "None"]

Report_new_value(error) ==
    [tag |-> "Report", error |-> error, show_backtrace |-> FALSE, pretty |-> FALSE]

CausedBy == <<NL, NL, "C", "a", "u", "s", "e", "d", " ", "b", "y", ":">>

StackBacktrace ==
    <<NL, NL, "S", "t", "a", "c", "k", " ", "b", "a", "c", "k", "t", "r", "a", "c", "e",
      ":", NL>>

Separator == <<":", " ">>

RECURSIVE fmt_singleline_causes(_, _)
\* the loop of fmt_singleline over the sources
fmt_singleline_causes(f, sources) ==
    IF sources = <<>> THEN f
    ELSE fmt_singleline_causes(f \o Separator \o DisplayText(Head(sources)),
                               Tail(sources))

\* fmt_singleline iterating the chain of the error instead of its source's
fmt_singleline_repeat_root(self, f) ==
    fmt_singleline_causes(f \o DisplayText(self.error), Error_chain(self.error))

\* Report::fmt_singleline, writing to the text f
fmt_singleline(self, f) ==
    fmt_singleline_causes(f \o DisplayText(self.error),
                          Error_chain(Error_source(self.error)))

\* the loop body numbering every entry, whatever `multiple`
fmt_multiline_entry_always_numbered(f, ind, error, multiple) ==
    Indented_write_all(Indented(f \o <<NL>>, TRUE, FormatSome(ind)),
                       Display_writes(error)).buffer

\* the body of the loop of fmt_multiline for entry number ind of the chain
fmt_multiline_entry(f, ind, error, multiple) ==
    LET format == IF multiple THEN FormatSome(ind) ELSE FormatNone
        indented == Indented(f \o <<NL>>, TRUE, format)
    IN Indented_write_all(indented, Display_writes(error)).buffer

RECURSIVE fmt_multiline_causes(_, _, _, _)
fmt_multiline_causes(f, causes, ind, multiple) ==
    IF ind >= Len(causes) THEN f
    ELSE fmt_multiline_causes(fmt_multiline_entry(f, ind, causes[ind + 1], multiple),
                              causes, ind + 1, multiple)

\* the section with its header written before the source is looked at
fmt_multiline_sources_always_header(error, f) ==
    LET cause == Error_source(error)
    IN IF cause # NoError
       THEN fmt_multiline_causes(f \o CausedBy, Error_chain(cause), 0,
                                 Error_source(cause) # NoError)
       ELSE f \o CausedBy

\* the "Caused by:" section of fmt_multiline
fmt_multiline_sources(error, f) ==
    LET cause == Error_source(error)
    IN IF cause # NoError
       THEN fmt_multiline_causes(f \o CausedBy, Error_chain(cause), 0,
                                 Error_source(cause) # NoError)
       ELSE f

\* the section written without trim_end()
fmt_multiline_backtrace_untrimmed(self, f) ==
    IF self.show_backtrace /\ Error_backtrace(self.error) # NoBacktrace
    THEN f \o StackBacktrace \o Error_backtrace(self.error).text
    ELSE f

\* the "Stack backtrace:" section of fmt_multiline
fmt_multiline_backtrace(self, f) ==
    IF self.show_backtrace /\ Error_backtrace(self.error) # NoBacktrace
    THEN f \o StackBacktrace \o TrimEnd(Error_backtrace(self.error).text)
    ELSE f

\* Report::fmt_multiline, writing to the text f
fmt_multiline(self, f) ==
    fmt_multiline_backtrace(self,
        fmt_multiline_sources(self.error, f \o DisplayText(self.error)))

\* Display (and Debug) for Report
Report_fmt(self, f) ==
    IF self.pretty THEN fmt_multiline(self, f) ELSE fmt_singleline(self, f)

\* report.to_string()
Report_to_string(self) == Report_fmt(self, <<>>)

(***************************************************************************)
(* Inputs: the errors handed to the program.                                *)
(***************************************************************************)
\* the letter that stands for the text of cause number k
Letters == <<"a", "b", "c", "d", "e", "f", "g", "h">>
Letter(k) == IF k < Len(Letters) THEN Letters[k + 1] ELSE "z"

RECURSIVE TextsOfLen(_)
\* the shapes of a text: "x" stands for a letter, NL is a line break
TextsOfLen(n) ==
    IF n = 0 THEN {<<>>}
    ELSE {<<c>> \o t : c \in {"x", NL}, t \in TextsOfLen(n - 1)}

RECURSIVE Chunkings(_, _)
\* every way a Display impl can deliver the text t in exactly k writes
Chunkings(t, k) ==
    IF k = 0 THEN (IF t = <<>> THEN {<<>>} ELSE {})
    ELSE IF k = 1 THEN {<<t>>}
    ELSE UNION {{<<SubSeq(t, 1, i)>> \o rest :
                    rest \in Chunkings(SubSeq(t, i + 1, Len(t)), k - 1)} :
                i \in 0..Len(t)}

\* the writes of tests::error_formats_with_rude_display_impl (MyMessage), one
\* letter per line
RudeWrites ==
    <<<<"x", NL, "x">>, <<NL, "x", NL, "x", NL>>, <<"x", NL, "x">>>>

\* the Display shapes of a cause
Shapes ==
    {RudeWrites} \cup
    UNION {Chunkings(t, k) : t \in UNION {TextsOfLen(n) : n \in 0..MaxTextLen},
                             k \in 0..MaxChunks}

\* the writes of cause k with shape d: its letter in place of every "x"
Relabel(d, k) ==
    [i \in 1..Len(d) |->
        [j \in 1..Len(d[i]) |-> IF d[i][j] = "x" THEN Letter(k) ELSE d[i][j]]]

RECURSIVE CauseChain(_, _, _)
\* causes k, k+1, ..., n-1 of a chain of n causes, linked by source
CauseChain(d, k, n) ==
    IF k >= n THEN NoError
    ELSE ConcreteError(Relabel(d, k), CauseChain(d, k + 1, n), NoBacktrace)

RootWrites == {<<<<"R">>>>, <<<<"R", NL>>, <<"r">>>>}

Traces == {NoBacktrace, Backtrace(<<"t", NL, " ", "t", " ", NL>>)}

\* the concrete errors: a root, its optional trace and a chain of causes
Errors ==
    {ConcreteError(r, CauseChain(d, 0, n), t) :
        r \in RootWrites, d \in Shapes, n \in 0..MaxCauses, t \in Traces}

(***************************************************************************)
(* The report formatter as a state machine.                                 *)
(***************************************************************************)
NoOutput == [tag |-> "None"]
Output(text) == [tag |-> "Some", text |-> text]

NoResult == [tag |-> "None"]
NoStatus == [tag |-> "None"]
Status(code) == [tag |-> "Some", code |-> code]

InitReport ==
    /\ report = NoReport
    /\ out = NoOutput

InitDyn ==
    /\ res = NoResult
    /\ orig = NoError
    /\ hops = <<>>
    /\ pc = "run"
    /\ status = NoStatus
    /\ stderr = <<>>

Init == InitReport /\ InitDyn

\* Report::new(error), on a concrete error or on the DynError made of it
Report_new ==
    /\ report = NoReport
    /\ \E e \in Errors, erased \in BOOLEAN :
          report' = Report_new_value(IF erased THEN DynError_new(e) ELSE e)
    /\ UNCHANGED out
    /\ UNCHANGED dynVars

\* Report::pretty(b); a report is configured before it is rendered
Report_pretty ==
    /\ report # NoReport
    /\ out = NoOutput
    /\ \E b \in BOOLEAN : report' = [report EXCEPT !.pretty = b]
    /\ UNCHANGED out
    /\ UNCHANGED dynVars

\* Report::show_backtrace(b)
Report_show_backtrace ==
    /\ report # NoReport
    /\ out = NoOutput
    /\ \E b \in BOOLEAN : report' = [report EXCEPT !.show_backtrace = b]
    /\ UNCHANGED out
    /\ UNCHANGED dynVars

\* report.to_string(): Display for Report into an empty String
Report_render ==
    /\ report # NoReport
    /\ out' = Output(Report_to_string(report))
    /\ UNCHANGED report
    /\ UNCHANGED dynVars

Next ==
    \/ Report_new
    \/ Report_pretty
    \/ Report_show_backtrace
    \/ Report_render

Spec == Init /\ [][Next]_vars

(***************************************************************************)
(* DynResult and its conversions (boxerror_replacement.rs).                 *)
(***************************************************************************)
MaxHops == 3

\* Result::Err(e), e a concrete error or (Result<T, DynError>) a DynError
PlainErr(e) == [tag |-> "Result", variant |-> "Err", err |-> e]
\* DynResult::Ok(_)
DynOk == [tag |-> "DynResult", variant |-> "Ok", err |-> NoError]
\* DynResult::Err(error)
DynErr(error) == [tag |-> "DynResult", variant |-> "Err", err |-> error]
\* Result<T, BoxError>::Err(error)
BoxedErr(error) == [tag |-> "BoxResult", variant |-> "Err", err |-> error]

IsDynErr(r) == r.tag = "DynResult" /\ r.variant = "Err"

\* the errors failing functions return
DynShapes == {<<<<"x">>>>, <<<<"x", NL>>, <<"x">>>>}

DynInputs ==
    {ConcreteError(r, CauseChain(d, 0, n), t) :
        r \in RootWrites, d \in DynShapes, n \in 0..MaxCauses, t \in Traces}

\* a fallible call fails with a concrete error: Err(e) of a plain Result
Fail ==
    /\ res = NoResult
    /\ pc = "run"
    /\ \E e \in DynInputs : res' = PlainErr(e) /\ orig' = e
    /\ UNCHANGED <<hops, pc, status, stderr>>
    /\ UNCHANGED reportVars

\* Try::from_output: the function returns DynResult::Ok
Try_from_output ==
    /\ res = NoResult
    /\ pc = "run"
    /\ res' = DynOk
    /\ UNCHANGED <<orig, hops, pc, status, stderr>>
    /\ UNCHANGED reportVars

\* `?` on a plain Result inside a function returning DynResult:
\* FromResidual<Result<!, E>> for DynResult<T>
FromResidual_Result ==
    /\ res.tag = "Result"
    /\ pc = "run"
    /\ Len(hops) < MaxHops
    /\ res' = DynErr(DynError_new(res.err))
    /\ hops' = Append(hops, "Result")
    /\ UNCHANGED <<orig, pc, status, stderr>>
    /\ UNCHANGED reportVars

\* `?` on a DynResult inside a function returning DynResult: Try::branch, then
\* FromResidual<DynResult<!>> for DynResult<T>
FromResidual_DynResult ==
    /\ IsDynErr(res)
    /\ pc = "run"
    /\ Len(hops) < MaxHops
    /\ res' = DynErr(res.err)
    /\ hops' = Append(hops, "DynResult")
    /\ UNCHANGED <<orig, pc, status, stderr>>
    /\ UNCHANGED reportVars

\* `?` on a DynResult inside a function returning Result<T, BoxError>:
\* FromResidual<DynResult<!>> for Result<T, BoxError>
FromResidual_BoxResult ==
    /\ IsDynErr(res)
    /\ pc = "run"
    /\ Len(hops) < MaxHops
    /\ res' = BoxedErr(BoxError_from(res.err))
    /\ hops' = Append(hops, "BoxResult")
    /\ UNCHANGED <<orig, pc, status, stderr>>
    /\ UNCHANGED reportVars

\* a caller matches DynResult::Err(error) and returns Err(error) of a
\* Result<T, DynError>
Match_Err ==
    /\ IsDynErr(res)
    /\ pc = "run"
    /\ Len(hops) < MaxHops
    /\ res' = PlainErr(res.err)
    /\ UNCHANGED <<orig, hops, pc, status, stderr>>
    /\ UNCHANGED reportVars

ErrorPrefix == <<"E", "r", "r", "o", "r", ":", " ">>

\* Debug for Report: the same as Display
Report_debug(self, f) == Report_fmt(self, f)

\* the message of a report made pretty
Termination_message_pretty(error) ==
    Report_debug([Report_new_value(error) EXCEPT !.pretty = TRUE], ErrorPrefix) \o <<NL>>

\* eprintln!("Error: {:?}", crate::Report::new(error))
Termination_message(error) ==
    Report_debug(Report_new_value(error), ErrorPrefix) \o <<NL>>

\* Termination::report, Err arm, first statement: the eprintln!
Termination_report_eprintln ==
    /\ IsDynErr(res)
    /\ pc = "run"
    /\ stderr' = stderr \o Termination_message(res.err)
    /\ pc' = "printed"
    /\ UNCHANGED <<res, orig, hops, status>>
    /\ UNCHANGED reportVars

\* Termination::report: the value of the match, 0 for Ok and 1 for Err
Termination_report_return ==
    /\ \/ res = DynOk /\ pc = "run" /\ status' = Status(0)
       \/ IsDynErr(res) /\ pc = "printed" /\ status' = Status(1)
    /\ pc' = "done"
    /\ UNCHANGED <<res, orig, hops, stderr>>
    /\ UNCHANGED reportVars

NextDyn ==
    \/ Fail
    \/ Try_from_output
    \/ FromResidual_Result
    \/ FromResidual_DynResult
    \/ FromResidual_BoxResult
    \/ Match_Err
    \/ Termination_report_eprintln
    \/ Termination_report_return

SpecDyn == Init /\ [][NextDyn]_vars

(***************************************************************************)
(* Reference renderings, stated over the complete display texts.            *)
(***************************************************************************)
Rendered == out # NoOutput

\* the concrete error a report was made of, seen through a DynError
Unerased(e) == IF e.tag = "DynError" THEN e.error.inner ELSE e

RECURSIVE RefChain(_)
\* [E0, E1, ..., En]: a concrete error followed by its transitive causes
RefChain(e) == IF e = NoError THEN <<>> ELSE <<e>> \o RefChain(e.source)

RefText(e) == Concat(e.writes)

TheChain == RefChain(Unerased(report.error))
TheRoot == TheChain[1]

\* the report shows a trace section
TraceShown == report.show_backtrace /\ Error_backtrace(report.error) # NoBacktrace

RECURSIVE RefJoin(_, _)
\* E_i.display ++ ": " ++ ... ++ ": " ++ E_n.display, from entry i on
RefJoin(chain, i) ==
    IF i > Len(chain) THEN <<>>
    ELSE (IF i > 1 THEN <<":", " ">> ELSE <<>>) \o RefText(chain[i]) \o RefJoin(chain, i + 1)

RECURSIVE RefIndent(_, _, _, _, _, _)
\* the text from character i on, each non-empty line prefixed: the first line
\* of the text by `first`, every later line by `rest`
RefIndent(text, i, atLineStart, lineNo, first, rest) ==
    IF i > Len(text) THEN <<>>
    ELSE IF text[i] = NL
         THEN <<NL>> \o RefIndent(text, i + 1, TRUE, lineNo + 1, first, rest)
         ELSE (IF atLineStart THEN (IF lineNo = 0 THEN first ELSE rest) ELSE <<>>)
              \o <<text[i]>> \o RefIndent(text, i + 1, FALSE, lineNo, first, rest)

RefUniform(text) ==
    RefIndent(text, 1, TRUE, 0, <<" ", " ", " ", " ">>, <<" ", " ", " ", " ">>)

RefNumbered(text, k) ==
    RefIndent(text, 1, TRUE, 0, RightAlign(k, 4) \o <<":", " ">>,
              <<" ", " ", " ", " ", " ", " ">>)

RECURSIVE RefNumberedCauses(_, _)
\* cause k (entry k + 2 of the chain) and the causes after it, each on a new line
RefNumberedCauses(chain, k) ==
    IF k + 2 > Len(chain) THEN <<>>
    ELSE <<NL>> \o RefNumbered(RefText(chain[k + 2]), k) \o RefNumberedCauses(chain, k + 1)

HasChar(text, cs) == \E i \in 1..Len(text) : text[i] \in cs

\* C1: single-line rendering is E0.display followed by ": " and Ei.display for
\* every cause in chain order, the root not repeated.
C1_SingleLine ==
    (Rendered /\ ~report.pretty) => out.text = RefJoin(TheChain, 1)

C1_Witness ==
    /\ Rendered /\ ~report.pretty
    /\ Len(TheChain) >= 3
    /\ \A i \in 1..Len(TheChain) : RefText(TheChain[i]) # <<>>

\* C2: with exactly one cause C and no trace shown, the pretty rendering is
\* R.display, "\n\nCaused by:\n", then C's text with every non-empty line prefixed
\* by four spaces, whatever the writes of C's Display; no index, no colon.
C2_Uniform ==
    (Rendered /\ report.pretty /\ Len(TheChain) = 2 /\ ~TraceShown) =>
        LET head == RefText(TheRoot) \o CausedBy \o <<NL>>
        IN /\ out.text = head \o RefUniform(RefText(TheChain[2]))
           /\ ~HasChar(SubSeq(out.text, Len(head) + 1, Len(out.text)),
                       {":"} \cup {DigitChars[d] : d \in 1..10})

C2_Witness ==
    /\ Rendered /\ report.pretty /\ Len(TheChain) = 2 /\ ~TraceShown
    /\ Len(TheChain[2].writes) >= 2
    /\ Len(Split(RefText(TheChain[2]))) >= 3
    /\ \E i \in 1..Len(Split(RefText(TheChain[2]))) : Split(RefText(TheChain[2]))[i] = <<>>

\* C3: with two or more causes, cause k is rendered on a new line, its first
\* line prefixed by k right-aligned in width 4 and ": ", its continuation lines
\* by six blanks, k = 0, 1, 2, ... in chain order.
C3_Numbered ==
    (Rendered /\ report.pretty /\ Len(TheChain) >= 3 /\ ~TraceShown) =>
        out.text = RefText(TheRoot) \o CausedBy \o RefNumberedCauses(TheChain, 0)

RECURSIVE Coalesced(_)
\* the same error with every Display delivering its complete text in one write
Coalesced(e) ==
    CASE e.tag = "None" -> e
      [] e.tag = "Error" ->
            [e EXCEPT !.writes = <<Concat(e.writes)>>, !.source = Coalesced(e.source)]
      [] e.tag = "Box" -> [e EXCEPT !.inner = Coalesced(e.inner)]
      [] e.tag = "DynError" -> [e EXCEPT !.error = Coalesced(e.error)]

\* C4: the multi-line rendering depends only on the complete display texts of
\* the chain entries, not on how each Display splits its text into writes.
C4_ChunkIndependent ==
    (Rendered /\ report.pretty) =>
        out.text = Report_to_string([report EXCEPT !.error = Coalesced(report.error)])

\* the "Caused by:" entries of a pretty rendering: the text between the header
\* and the trace section
CausesSection ==
    LET from == Len(RefText(TheRoot)) + Len(CausedBy) + 1
        trace == IF TraceShown
                 THEN Len(StackBacktrace) + Len(TrimEnd(Error_backtrace(report.error).text))
                 ELSE 0
    IN SubSeq(out.text, from, Len(out.text) - trace)

RECURSIVE RefCauseLines(_, _)
\* the lines of the texts of the causes, from entry i of the chain on
RefCauseLines(chain, i) ==
    IF i > Len(chain) THEN <<>>
    ELSE Split(RefText(chain[i])) \o RefCauseLines(chain, i + 1)

IsSuffix(t, l) == Len(t) <= Len(l) /\ SubSeq(l, Len(l) - Len(t) + 1, Len(l)) = t

\* C5: in the indented part every line of a cause's text gives one output
\* line that ends with the text's line; an empty line of the text gives an
\* empty output line, and no output line ends with injected whitespace.
C5_BlankLines ==
    (Rendered /\ report.pretty /\ Len(TheChain) >= 2) =>
        LET got == Tail(Split(CausesSection))
            want == RefCauseLines(TheChain, 2)
        IN /\ Head(Split(CausesSection)) = <<>>
           /\ Len(got) = Len(want)
           /\ \A i \in 1..Len(want) :
                 /\ IsSuffix(want[i], got[i])
                 /\ (want[i] = <<>>) => (got[i] = <<>>)
                 /\ (got[i] # <<>>) => ~IsWhitespace(got[i][Len(got[i])])

C5_Witness ==
    /\ Rendered /\ report.pretty /\ Len(TheChain) >= 3
    /\ Len(TheChain[2].writes) >= 2
    /\ \E i \in 2..(Len(RefText(TheChain[2])) - 1) :
          /\ RefText(TheChain[2])[i - 1] = NL
          /\ RefText(TheChain[2])[i] = NL
          /\ RefText(TheChain[2])[i + 1] # NL
    /\ HasChar(CausesSection, {"1"})

\* the trace section the formatter appends for a concrete error with a trace
RefTraceSection(e) ==
    IF e.trace = NoBacktrace THEN <<>>
    ELSE StackBacktrace \o TrimEnd(e.trace.text)

\* C6 as stated: an error with no source renders as exactly its display text,
\* in both modes, whatever show_backtrace and whether or not it has a trace.
C6_NoSourceVerbatim ==
    (Rendered /\ Len(TheChain) = 1) => out.text = RefText(TheRoot)

\* C6 amended: an error with no source renders as its display text, with no
\* "Caused by:" header; the only thing that can follow is the trace section,
\* and only in pretty mode with show_backtrace set and a trace exposed.
C6_NoSource ==
    (Rendered /\ Len(TheChain) = 1) =>
        /\ out.text = RefText(TheRoot) \o (IF report.pretty /\ TraceShown
                                           THEN RefTraceSection(report.error)
                                           ELSE <<>>)
        /\ (~report.pretty \/ ~TraceShown) => out.text = RefText(TheRoot)

C6_Witness ==
    /\ Rendered /\ Len(TheChain) = 1
    /\ report.pretty /\ report.show_backtrace
    /\ report.error.tag = "Error" /\ report.error.trace # NoBacktrace

\* C9: a Report of DynError::new(E) renders exactly as a Report of E, for
\* every setting of pretty and show_backtrace.
C9_BoxTransparent ==
    (Rendered /\ report.error.tag = "DynError") =>
        out.text = Report_to_string([report EXCEPT !.error = Unerased(report.error)])

(***************************************************************************)
(* Properties of DynError and DynResult.                                    *)
(***************************************************************************)
\* res carries a DynError: as the failure of a DynResult, as the error of a
\* Result<T, DynError>, or inside the BoxError of a Result<T, BoxError>
HoldsDynError ==
    \/ IsDynErr(res)
    \/ res.tag = "Result" /\ res.err.tag = "DynError"
    \/ res.tag = "BoxResult"

HeldDynError == IF res.tag = "BoxResult" THEN res.err.inner ELSE res.err

\* number of times DynError::new ran on the travelling failure
NewCalls == Cardinality({i \in 1..Len(hops) : hops[i] = "Result"})

\* C7: the value directly held by a DynError is never a DynError, and wrapping
\* again gives what wrapping once gave: one erasure of the original error,
\* with the original's display text and source chain.
C7_SingleLayer ==
    HoldsDynError =>
        /\ HeldDynError.tag = "DynError"
        /\ HeldDynError.error.tag = "Box"
        /\ HeldDynError.error.inner.tag # "DynError"
        /\ HeldDynError.error.inner = orig
        /\ DisplayText(HeldDynError) = RefText(orig)
        /\ Error_chain(Error_source(HeldDynError)) = RefChain(orig.source)

C7_Witness ==
    /\ IsDynErr(res)
    /\ NewCalls >= 2
    /\ Len(RefChain(orig)) >= 2

\* C8: a failure converted to a DynResult and back to a Result<T, BoxError>
\* displays as the original error and has the original's sources in the same
\* order; a failure passed from DynResult to DynResult is the same DynError.
C8_RoundTrip ==
    /\ res.tag = "BoxResult" =>
          /\ DisplayText(res.err) = RefText(orig)
          /\ Error_chain(Error_source(res.err)) = RefChain(orig.source)
          /\ \A i \in 1..Len(RefChain(orig.source)) :
                DisplayText(Error_chain(Error_source(res.err))[i])
                    = RefText(RefChain(orig.source)[i])
    /\ IsDynErr(res) =>
          res.err = [tag |-> "DynError", error |-> [tag |-> "Box", inner |-> orig]]

C8_Witness ==
    /\ res.tag = "BoxResult"
    /\ Len(hops) >= 3
    /\ hops[2] = "DynResult"
    /\ Len(RefChain(orig)) >= 3

\* C10: Termination::report of a success returns 0 and writes nothing; of a
\* failure it writes one single-line report of the error to stderr and then
\* returns 1; nothing is returned before the write, and only 0 or 1.
C10_Termination ==
    /\ status # NoStatus => (pc = "done" /\ status.code \in {0, 1})
    /\ res = DynOk => stderr = <<>>
    /\ pc = "run" => (status = NoStatus /\ stderr = <<>>)
    /\ pc = "printed" => status = NoStatus
    /\ (pc = "done" /\ res = DynOk) => status = Status(0)
    /\ (pc # "run" /\ IsDynErr(res)) =>
          stderr = ErrorPrefix \o RefJoin(RefChain(orig), 1) \o <<NL>>
    /\ (pc = "done" /\ IsDynErr(res)) => status = Status(1)

C10_Witness ==
    /\ pc = "done"
    /\ status = Status(1)
    /\ Len(RefChain(orig)) >= 3
    /\ orig.trace # NoBacktrace

(***************************************************************************)
(* The trace section and the index of numbered entries.                     *)
(***************************************************************************)
\* the root error of the report exposes a captured trace
RootExposesTrace ==
    report.error.tag = "Error" /\ report.error.trace # NoBacktrace

\* t occurs in l as a block of consecutive characters
Occurs(t, l) ==
    \E i \in 1..(Len(l) - Len(t) + 1) : SubSeq(l, i, i + Len(t) - 1) = t

\* the rendering of the same report with show_backtrace unset
WithoutTrace == Report_to_string([report EXCEPT !.show_backtrace = FALSE])

\* C11: the output has a trace section iff pretty and show_backtrace are set
\* and the root exposes a trace; it is then the output without the trace,
\* followed by "\n\nStack backtrace:\n" and the trace with its trailing
\* whitespace trimmed, unindented, also for a root with no source; in
\* single-line mode show_backtrace changes nothing.
C11_TraceSection ==
    Rendered =>
        LET shown == report.pretty /\ report.show_backtrace /\ RootExposesTrace
        IN /\ Occurs(StackBacktrace, out.text) <=> shown
           /\ shown =>
                 /\ out.text = WithoutTrace \o StackBacktrace
                                   \o TrimEnd(report.error.trace.text)
                 /\ ~IsWhitespace(out.text[Len(out.text)])
           /\ ~shown => out.text = WithoutTrace
           /\ ~report.pretty => out.text = RefJoin(TheChain, 1)

C11_Witness ==
    /\ Rendered /\ report.pretty /\ report.show_backtrace /\ RootExposesTrace
    /\ Len(TheChain) >= 3
    /\ IsWhitespace(report.error.trace.text[Len(report.error.trace.text)])
    /\ HasChar(TrimEnd(report.error.trace.text), {NL})

\* the number of output lines of the causes before entry i of the chain
RefLineOffset(chain, i) == Len(RefCauseLines(SubSeq(chain, 1, i - 1), 2))

\* the output lines of entry i of the chain in a pretty rendering
EntryLines(i) ==
    LET off == RefLineOffset(TheChain, i)
    IN SubSeq(Tail(Split(CausesSection)), off + 1,
              off + Len(Split(RefText(TheChain[i]))))

\* the index prefix of cause k
IndexToken(k) == RightAlign(k, 4) \o <<":", " ">>

\* C12: in Numbered mode every entry whose text has a non-empty line gets
\* its index prefix exactly once, in front of its first written (non-empty)
\* line, also when the text begins with an empty line or comes in several
\* writes; no other line of the entry carries the index.
C12_IndexOnce ==
    (Rendered /\ report.pretty /\ Len(TheChain) >= 3) =>
        \A i \in 2..Len(TheChain) :
            LET want == Split(RefText(TheChain[i]))
                lines == EntryLines(i)
                written == {j \in 1..Len(want) : want[j] # <<>>}
            IN written # {} =>
                  LET first == CHOOSE j \in written : \A m \in written : j <= m
                  IN /\ lines[first] = IndexToken(i - 2) \o want[first]
                     /\ \A j \in written \ {first} :
                           ~Occurs(IndexToken(i - 2), lines[j])

====
